---- MODULE Spec2Model ----
(***************************************************************************)
(* A model of aioasuswrt: the transport (connection.py: SshConnection and  *)
(* TelnetConnection), the device reconciler and the counter cache / rate   *)
(* estimator (asuswrt.py: AsusWrt).                                        *)
(*                                                                         *)
(* The specifications of the module:                                       *)
(*   SpecConn  the transport, one step per suspension point of a run call, *)
(*             the calls following one another                             *)
(*   SpecConc  the transport, with run calls of two tasks overlapping      *)
(*   SpecDev   async_get_connected_devices, one step per router command    *)
(*   SpecRate  the counter methods, one step per suspension point, the     *)
(*             calls following one another                                 *)
(*   SpecRateConc  the counter methods, with calls of two tasks overlapping *)
(***************************************************************************)
EXTENDS Integers, Sequences, FiniteSets, TLC

(***************************************************************************)
(* Bounds of the model.                                                    *)
(***************************************************************************)
MaxCalls == 3
MaxOut == 1

(***************************************************************************)
(* Python values.                                                          *)
(***************************************************************************)
\* None for a field that holds an object handle: handles are 1, 2, ...
NoHandle == 0

Tasks == {1, 2}

(***************************************************************************)
(* TRANSPORT (connection.py)                                               *)
(***************************************************************************)
VARIABLES
  use_telnet,   \* AsusWrt.__init__: which connection class was constructed
  client,       \* SshConnection._client (NoHandle = None)
  rw,           \* TelnetConnection._reader/_writer (NoHandle = None)
  prompt_set,   \* TelnetConnection._prompt_string is not None
  connected,    \* TelnetConnection.connected
  stream,       \* per task: the stream whose reader its readuntil awaits
  sent,         \* per stream: what was written to its writer, in order
  pc,           \* per task: the suspension point of its run call
  retry,        \* per task: the retry argument of its run call
  ret,          \* per task: what its last run call gave its caller
  nhandles,     \* session / stream objects created so far
  nestab,       \* sessions established so far (connect / login completed)
  nexec,        \* per task: command executions started by the current call
  ninit,        \* per task: async_init_session calls made by the current call
  chanfail,     \* per task: channel-open failures seen by the current call
  anyfail,      \* some connect, login or command has failed so far
  ncalls,       \* run calls started so far
  ndone         \* run calls that returned a value so far

connVars == <<use_telnet, client, rw, prompt_set, connected, stream, sent,
              pc, retry, ret, nhandles, nestab, nexec, ninit, chanfail, anyfail, ncalls, ndone>>

RECURSIVE SeqsUpTo(_, _)
SeqsUpTo(S, n) ==
  IF n = 0 THEN {<<>>}
  ELSE LET shorter == SeqsUpTo(S, n - 1)
       IN shorter \cup {Append(s, x) : s \in {q \in shorter : Len(q) = n - 1}, x \in S}

\* A line of text is modelled by its whitespace-separated fields: fmt names
\* the row layout (which command prints such rows), mac is the text of the
\* MAC field as a sequence of characters (<<>> when the row has none), ip,
\* host and status are the texts of those fields ("" / <<>> when missing),
\* nums are the runs of digits of an `ifconfig` row.
TextLine(fmt, mac, ip, host, status) ==
  [fmt |-> fmt, mac |-> mac, ip |-> ip, host |-> host, status |-> status,
   nums |-> <<>>]

\* The empty string ''.
EmptyLine == TextLine("empty", <<>>, "", "", <<>>)

\* result.stdout.split('\n'): the text after the last newline is an element
\* too, so the list is never empty.
SplitNewline(stdout) == stdout \o <<EmptyLine>>

\* readuntil(prompt).split(b'\n')[1:-1]: the echoed command line and the
\* trailing prompt are cut off.
StripEchoAndPrompt(raw) == SubSeq(raw, 2, Len(raw) - 1)

\* What readuntil(prompt) reads: the echoed command, the output, the prompt.
TelnetRaw(out) ==
  <<TextLine("echo", <<>>, "", "", <<>>)>> \o out
    \o <<TextLine("prompt", <<>>, "", "", <<>>)>>

\* What a run call hands to its caller.
RetNone == [kind |-> "none", lines |-> <<>>]
RetLines(ls) == [kind |-> "lines", lines |-> ls]
RetCoroutine == [kind |-> "coroutine", lines |-> <<>>]
RetRaise == [kind |-> "raise", lines |-> <<>>]

InitConnFields ==
  /\ client = NoHandle
  /\ rw = NoHandle
  /\ prompt_set = FALSE
  /\ connected = FALSE
  /\ stream = [t \in Tasks |-> NoHandle]
  /\ sent = <<>>
  /\ pc = [t \in Tasks |-> "idle"]
  /\ retry = [t \in Tasks |-> FALSE]
  /\ ret = [t \in Tasks |-> RetNone]
  /\ nhandles = 0
  /\ nestab = 0
  /\ nexec = [t \in Tasks |-> 0]
  /\ ninit = [t \in Tasks |-> 0]
  /\ chanfail = [t \in Tasks |-> 0]
  /\ anyfail = FALSE
  /\ ncalls = 0
  /\ ndone = 0

\* No task is inside a run call.
Quiet == \A t \in Tasks : pc[t] = "idle"

\* `if self._client is None`
SshNeedsSessionAlways == TRUE
SshNeedsSession == client = NoHandle

\* `if not self.connected`
TelNeedsConnectAlways == TRUE
TelNeedsConnectNoStream == rw = NoHandle
TelNeedsConnect == ~connected

Return(t, v) ==
  /\ pc' = [pc EXCEPT ![t] = "idle"]
  /\ ret' = [ret EXCEPT ![t] = v]
  /\ ndone' = IF v.kind = "raise" THEN ndone ELSE ndone + 1

Goto(t, label) ==
  /\ pc' = [pc EXCEPT ![t] = label]
  /\ UNCHANGED <<ret, ndone>>

\* SshConnection.async_run_command entered.
SshCall(t, r) ==
  /\ ~use_telnet
  /\ pc[t] = "idle"
  /\ ncalls < MaxCalls
  /\ ncalls' = ncalls + 1
  /\ retry' = [retry EXCEPT ![t] = r]
  /\ nexec' = [nexec EXCEPT ![t] = 0]
  /\ ninit' = [ninit EXCEPT ![t] = 0]
  /\ chanfail' = [chanfail EXCEPT ![t] = 0]
  /\ IF SshNeedsSession THEN Goto(t, "init") ELSE Goto(t, "run")
  /\ UNCHANGED <<use_telnet, stream, sent, client, rw, prompt_set, connected, nhandles,
                 nestab, anyfail>>

\* async_init_session: asyncssh.connect returned a new client.
SshInitSession(t) ==
  /\ nhandles' = nhandles + 1
  /\ client' = nhandles + 1
  /\ nestab' = nestab + 1
  /\ ninit' = [ninit EXCEPT ![t] = @ + 1]
  /\ UNCHANGED <<use_telnet, stream, sent, rw, prompt_set, connected, retry, nexec, chanfail,
                 anyfail, ncalls>>

SshInitOk(t) ==
  /\ pc[t] = "init"
  /\ SshInitSession(t)
  /\ Goto(t, "run")

\* asyncssh.connect raised: nothing is stored, the exception propagates.
SshInitFail(t) ==
  /\ pc[t] \in {"init", "reinit"}
  /\ ninit' = [ninit EXCEPT ![t] = @ + 1]
  /\ anyfail' = TRUE
  /\ Return(t, RetRaise)
  /\ UNCHANGED <<use_telnet, stream, sent, client, rw, prompt_set, connected, retry,
                 nhandles, nestab, nexec, chanfail, ncalls>>

\* `result = await self._client.run(command)` succeeded.
SshRunOk(t, stdout) ==
  /\ pc[t] = "run"
  /\ nexec' = [nexec EXCEPT ![t] = @ + 1]
  /\ Return(t, RetLines(SplitNewline(stdout)))
  /\ UNCHANGED <<use_telnet, stream, sent, client, rw, prompt_set, connected, retry,
                 nhandles, nestab, ninit, chanfail, anyfail, ncalls>>

\* `except asyncssh.misc.ChannelOpenError`
SshRunChannelOpenError(t) ==
  /\ pc[t] = "run"
  /\ nexec' = [nexec EXCEPT ![t] = @ + 1]
  /\ chanfail' = [chanfail EXCEPT ![t] = @ + 1]
  /\ anyfail' = TRUE
  /\ IF ~retry[t]
       THEN Goto(t, "reinit")
       ELSE Return(t, RetLines(<<>>))
  /\ UNCHANGED <<use_telnet, stream, sent, client, rw, prompt_set, connected, retry,
                 nhandles, nestab, ninit, ncalls>>

\* Any other exception of self._client.run is not caught.
SshRunRaise(t) ==
  /\ pc[t] = "run"
  /\ nexec' = [nexec EXCEPT ![t] = @ + 1]
  /\ anyfail' = TRUE
  /\ Return(t, RetRaise)
  /\ UNCHANGED <<use_telnet, stream, sent, client, rw, prompt_set, connected, retry,
                 nhandles, nestab, ninit, chanfail, ncalls>>

\* `await self.async_init_session()` then
\* `return self.async_run_command(command, retry=True)`: the call is not
\* awaited, so what is returned is the coroutine object; its body never runs.
SshReinitOk(t) ==
  /\ pc[t] = "reinit"
  /\ SshInitSession(t)
  /\ Return(t, RetCoroutine)

\* self._writer.write(...): the bytes go to the stream self._writer is
\* bound to when the statement runs.
Write(what) == [sent EXCEPT ![rw] = Append(@, what)]

\* `await self._reader.readuntil(...)`: the task waits on the reader that
\* self._reader is bound to when the statement runs.
ReadUntil(t) == [stream EXCEPT ![t] = rw]
ReadUntilOn(t, h) == [stream EXCEPT ![t] = h]
NotReading(t) == [stream EXCEPT ![t] = NoHandle]

\* TelnetConnection.async_run_command entered: `if not self.connected` sends
\* the call to async_connect, where it awaits open_connection; otherwise the
\* command is written and the call awaits the output.
TelCall(t) ==
  /\ use_telnet
  /\ pc[t] = "idle"
  /\ ncalls < MaxCalls
  /\ ncalls' = ncalls + 1
  /\ nexec' = [nexec EXCEPT ![t] = 0]
  /\ ninit' = [ninit EXCEPT ![t] = 0]
  /\ chanfail' = [chanfail EXCEPT ![t] = 0]
  /\ IF TelNeedsConnect
       THEN /\ Goto(t, "open")
            /\ UNCHANGED <<stream, sent>>
       ELSE /\ Goto(t, "command")
            /\ sent' = Write("command")
            /\ stream' = ReadUntil(t)
  /\ UNCHANGED <<use_telnet, client, rw, prompt_set, connected, retry,
                 nhandles, nestab, anyfail>>

\* async_connect: asyncio.open_connection returned the stream pair, which is
\* stored; the call awaits the login prompt.
TelOpenOk(t) ==
  /\ pc[t] = "open"
  /\ nhandles' = nhandles + 1
  /\ rw' = nhandles + 1
  /\ sent' = Append(sent, <<>>)
  /\ stream' = ReadUntilOn(t, nhandles + 1)
  /\ ninit' = [ninit EXCEPT ![t] = @ + 1]
  /\ Goto(t, "login")
  /\ UNCHANGED <<use_telnet, client, prompt_set, connected, retry, nestab,
                 nexec, chanfail, anyfail, ncalls>>

TelOpenFail(t) ==
  /\ pc[t] = "open"
  /\ ninit' = [ninit EXCEPT ![t] = @ + 1]
  /\ anyfail' = TRUE
  /\ Return(t, RetRaise)
  /\ UNCHANGED <<use_telnet, client, rw, prompt_set, connected, stream, sent,
                 retry, nhandles, nestab, nexec, chanfail, ncalls>>

\* async_connect: b'login: ' was read; the user name is written and the call
\* awaits the password prompt.
TelLoginPrompt(t) ==
  /\ pc[t] = "login"
  /\ sent' = Write("username")
  /\ stream' = ReadUntil(t)
  /\ Goto(t, "password")
  /\ UNCHANGED <<use_telnet, client, rw, prompt_set, connected, retry,
                 nhandles, nestab, nexec, ninit, chanfail, anyfail, ncalls>>

\* async_connect: b'Password: ' was read; the password is written and the
\* call awaits the shell prompt.
TelPasswordPrompt(t) ==
  /\ pc[t] = "password"
  /\ sent' = Write("password")
  /\ stream' = ReadUntil(t)
  /\ Goto(t, "prompt")
  /\ UNCHANGED <<use_telnet, client, rw, prompt_set, connected, retry,
                 nhandles, nestab, nexec, ninit, chanfail, anyfail, ncalls>>

\* async_connect: the shell prompt was read, _prompt_string and connected
\* are set; back in async_run_command the command is written and the call
\* awaits the output.
TelLoginOk(t) ==
  /\ pc[t] = "prompt"
  /\ prompt_set' = TRUE
  /\ connected' = TRUE
  /\ nestab' = nestab + 1
  /\ sent' = Write("command")
  /\ stream' = ReadUntil(t)
  /\ Goto(t, "command")
  /\ UNCHANGED <<use_telnet, client, rw, retry, nhandles, nexec, ninit,
                 chanfail, anyfail, ncalls>>

\* The readuntil that async_connect awaits raised.
TelLoginFail(t) ==
  /\ pc[t] \in {"login", "password", "prompt"}
  /\ anyfail' = TRUE
  /\ stream' = NotReading(t)
  /\ Return(t, RetRaise)
  /\ UNCHANGED <<use_telnet, client, rw, prompt_set, connected, sent, retry,
                 nhandles, nestab, nexec, ninit, chanfail, ncalls>>

\* The output up to the prompt was read.
TelCommandOk(t, out) ==
  /\ pc[t] = "command"
  /\ nexec' = [nexec EXCEPT ![t] = @ + 1]
  /\ stream' = NotReading(t)
  /\ Return(t, RetLines(StripEchoAndPrompt(TelnetRaw(out))))
  /\ UNCHANGED <<use_telnet, client, rw, prompt_set, connected, sent, retry,
                 nhandles, nestab, ninit, chanfail, anyfail, ncalls>>

\* The readuntil of the output raised: nothing is caught.
TelCommandFail(t) ==
  /\ pc[t] = "command"
  /\ nexec' = [nexec EXCEPT ![t] = @ + 1]
  /\ anyfail' = TRUE
  /\ stream' = NotReading(t)
  /\ Return(t, RetRaise)
  /\ UNCHANGED <<use_telnet, client, rw, prompt_set, connected, sent, retry,
                 nhandles, nestab, ninit, chanfail, ncalls>>

(***************************************************************************)
(* TEXT: characters, MAC patterns, str.upper                               *)
(***************************************************************************)
None == "None"

Digits == {"0", "1", "2", "3", "4", "5", "6", "7", "8", "9"}
LowerAlpha == <<"a", "b", "c", "d", "e", "f", "g", "h", "i", "j", "k", "l", "m",
                "n", "o", "p", "q", "r", "s", "t", "u", "v", "w", "x", "y", "z">>
UpperAlpha == <<"A", "B", "C", "D", "E", "F", "G", "H", "I", "J", "K", "L", "M",
                "N", "O", "P", "Q", "R", "S", "T", "U", "V", "W", "X", "Y", "Z">>
LowerHexLetters == {LowerAlpha[i] : i \in 1..6}
UpperHexLetters == {UpperAlpha[i] : i \in 1..6}

\* str.upper() on one character: letters change case, the rest is kept.
UpperChar(c) ==
  IF \E i \in 1..26 : LowerAlpha[i] = c
    THEN UpperAlpha[CHOOSE i \in 1..26 : LowerAlpha[i] = c]
    ELSE c

\* str.upper()
Upper(s) == [i \in 1..Len(s) |-> UpperChar(s[i])]

\* (([0-9a-f]{2}[:-]){5}([0-9a-f]{2})) with the given letters of the class.
MacPattern(s, letters) ==
  /\ Len(s) = 17
  /\ \A i \in 1..17 :
       IF i % 3 = 0 THEN s[i] \in {":", "-"} ELSE s[i] \in Digits \cup letters

\* ([0-9]{1,3}[\.]){3}[0-9]{1,3}: the addresses the model prints.
Ipv4Texts == {"10.0.0.1", "10.0.0.2"}

\* ([0-9a-fA-F]{1,4}:){1,7}[0-9a-fA-F]{0,4}(:[0-9a-fA-F]{1,4}){1,7}: the
\* IPv6 addresses the model prints.
Ipv6Texts == {"fe80::1"}

\* The two alternatives of the ip group of _IP_NEIGH_REGEX.
NeighIpTexts == Ipv4Texts \cup Ipv6Texts

\* re.Match.groupdict(), and matched = FALSE for regex.search() giving None.
\* A named group that did not take part in the match is None (<<>> for mac).
NoMac == <<>>
NoMatch == [matched |-> FALSE, mac |-> NoMac, ip |-> None, host |-> None,
            status |-> <<>>]
GroupDict(mac, ip, host, status) ==
  [matched |-> TRUE, mac |-> mac, ip |-> ip, host |-> host, status |-> status]

\* _WL_REGEX.search(line): a word, a blank, an upper-case MAC.
WlSearch(line) ==
  IF line.fmt = "wl" /\ MacPattern(line.mac, UpperHexLetters)
    THEN GroupDict(line.mac, None, None, <<>>)
    ELSE NoMatch

\* _ARP_REGEX.search(line): "host (ip) at mac ..." with a lower-case MAC.
ArpSearch(line) ==
  IF line.fmt = "arp" /\ line.ip \in Ipv4Texts
       /\ MacPattern(line.mac, LowerHexLetters)
    THEN GroupDict(line.mac, line.ip, None, <<>>)
    ELSE NoMatch

\* _IP_NEIGH_REGEX.search(line): "ip dev if [lladdr mac] status" with an
\* IPv4 or IPv6 address in front; the MAC group is optional, the address and
\* the status word are not.
NeighSearchIpOptional(line) ==
  IF line.fmt = "neigh" /\ line.status # <<>>
       /\ (line.mac = <<>> \/ MacPattern(line.mac, LowerHexLetters))
    THEN GroupDict(IF line.mac = <<>> THEN NoMac ELSE line.mac,
                   IF line.ip \in NeighIpTexts THEN line.ip ELSE None, None,
                   line.status)
    ELSE NoMatch
NeighSearch(line) ==
  IF line.fmt = "neigh" /\ line.ip \in NeighIpTexts /\ line.status # <<>>
       /\ (line.mac = <<>> \/ MacPattern(line.mac, LowerHexLetters))
    THEN GroupDict(IF line.mac = <<>> THEN NoMac ELSE line.mac, line.ip, None,
                   line.status)
    ELSE NoMatch

\* _LEASES_REGEX.search(line): "expiry mac ip host ..." with a lower-case MAC.
LeasesSearch(line) ==
  IF line.fmt = "lease" /\ line.ip \in Ipv4Texts /\ line.host # ""
       /\ MacPattern(line.mac, LowerHexLetters)
    THEN GroupDict(line.mac, line.ip, line.host, <<>>)
    ELSE NoMatch

\* regex.search(line) for the four compiled patterns.
RegexSearch(regex, line) ==
  CASE regex = "_WL_REGEX" -> WlSearch(line)
    [] regex = "_ARP_REGEX" -> ArpSearch(line)
    [] regex = "_IP_NEIGH_REGEX" -> NeighSearch(line)
    [] regex = "_LEASES_REGEX" -> LeasesSearch(line)

\* _parse_lines(lines, regex): the groupdicts of the lines that match, in
\* order; a line that does not match is skipped.
ParseLines(lines, regex) ==
  SelectSeq([i \in 1..Len(lines) |-> RegexSearch(regex, lines[i])],
            LAMBDA m : m.matched)

(***************************************************************************)
(* DEVICE RECONCILER (asuswrt.py)                                          *)
(***************************************************************************)
\* Device = namedtuple('Device', ['mac', 'ip', 'name'])
Device(mac, ip, name) == [mac |-> mac, ip |-> ip, name |-> name]

\* A dict is a function on its set of keys.
EmptyDict == [k \in {} |-> Device(NoMac, None, None)]

\* d[k] = v
Put(d, k, v) == [x \in (DOMAIN d) \cup {k} |-> IF x = k THEN v ELSE d[x]]

\* d.update(e)
UpdateKeepOld(d, e) ==
  [x \in (DOMAIN d) \cup (DOMAIN e) |-> IF x \in DOMAIN d THEN d[x] ELSE e[x]]
Update(d, e) ==
  [x \in (DOMAIN d) \cup (DOMAIN e) |-> IF x \in DOMAIN e THEN e[x] ELSE d[x]]

\* What an async_get_* method gives: the dict, or an exception out of it.
Raised == [raised |-> TRUE, devices |-> EmptyDict]
Got(d) == [raised |-> FALSE, devices |-> d]

\* The loop of async_get_wl.
RECURSIVE WlLoop(_, _)
WlLoop(result, devices) ==
  IF result = <<>> THEN devices
  ELSE LET device == Head(result)
           mac == Upper(device.mac)
       IN WlLoop(Tail(result), Put(devices, mac, Device(mac, None, None)))

\* The loop of async_get_arp.
RECURSIVE ArpLoop(_, _)
ArpLoop(result, devices) ==
  IF result = <<>> THEN devices
  ELSE LET device == Head(result)
           mac == Upper(device.mac)
       IN ArpLoop(Tail(result),
                  IF device.mac # NoMac
                    THEN Put(devices, mac, Device(mac, device.ip, None))
                    ELSE devices)

\* `status is None or status.upper() != 'REACHABLE'`
Reachable == <<"R", "E", "A", "C", "H", "A", "B", "L", "E">>
NotReachableNever(status) == FALSE
NotReachable(status) == status = <<>> \/ Upper(status) # Reachable

\* The loop of async_get_neigh. device.get('ip', old_ip): the groupdict
\* always has the key 'ip', so the default old_ip is never taken.
RECURSIVE NeighLoop(_, _, _)
NeighLoop(result, cur_devices, devices) ==
  IF result = <<>> THEN devices
  ELSE LET device == Head(result)
           mac == Upper(device.mac)
       IN NeighLoop(Tail(result), cur_devices,
                    IF NotReachable(device.status) THEN devices
                    ELSE IF device.mac # NoMac
                      THEN Put(devices, mac, Device(mac, device.ip, None))
                      ELSE devices)

\* `if mac in cur_devices`
LeaseAppliesAlways(mac, cur_devices) == TRUE
LeaseApplies(mac, cur_devices) == mac \in DOMAIN cur_devices

\* `host = device['host']`, `if host == '*': host = ''`
LeaseHostAsPrinted(host) == host
LeaseHost(host) == IF host = "*" THEN "" ELSE host

\* The ip of `Device(mac, device['ip'], host)`: the lease's, whatever ip the
\* entry cur of the table has.
LeaseIpOfTable(device, cur) == cur.ip
LeaseIp(device, cur) == device.ip

\* The loop of async_get_leases.
RECURSIVE LeasesLoop(_, _, _)
LeasesLoop(result, cur_devices, devices) ==
  IF result = <<>> THEN devices
  ELSE LET device == Head(result)
           host == LeaseHost(device.host)
           mac == Upper(device.mac)
       IN LeasesLoop(Tail(result), cur_devices,
                     IF LeaseApplies(mac, cur_devices)
                       THEN Put(devices, mac,
                                Device(mac, LeaseIp(device, cur_devices[mac]),
                                       host))
                       ELSE devices)

\* `lines = [line for line in lines if not line.startswith('duid ')]`
DropDuid(lines) == SelectSeq(lines, LAMBDA l : l.fmt # "duid")

\* `lines = await self.connection.async_run_command(...)`, `if not lines`:
\* an exception of the transport propagates; a coroutine object is true and
\* iterating it in _parse_lines raises TypeError.
NoLines(r) == r.kind = "lines" /\ r.lines = <<>>
Unusable(r) == r.kind # "lines"

async_get_wl(r) ==
  IF Unusable(r) THEN Raised
  ELSE IF NoLines(r) THEN Got(EmptyDict)
  ELSE Got(WlLoop(ParseLines(r.lines, "_WL_REGEX"), EmptyDict))

async_get_arp(r) ==
  IF Unusable(r) THEN Raised
  ELSE IF NoLines(r) THEN Got(EmptyDict)
  ELSE Got(ArpLoop(ParseLines(r.lines, "_ARP_REGEX"), EmptyDict))

async_get_neigh(r, cur_devices) ==
  IF Unusable(r) THEN Raised
  ELSE IF NoLines(r) THEN Got(EmptyDict)
  ELSE Got(NeighLoop(ParseLines(r.lines, "_IP_NEIGH_REGEX"), cur_devices, EmptyDict))

async_get_leases(r, cur_devices) ==
  IF Unusable(r) THEN Raised
  ELSE IF NoLines(r) THEN Got(EmptyDict)
  ELSE Got(LeasesLoop(ParseLines(DropDuid(r.lines), "_LEASES_REGEX"), cur_devices,
                      EmptyDict))

\* The final loop of async_get_connected_devices.
KeepsDeviceAlways(require, d) == TRUE
KeepsDevice(require, d) == ~require \/ d.ip # None

FilterDevices(require, all) ==
  LET keys == {k \in DOMAIN all : KeepsDevice(require, all[k])}
  IN [k \in keys |-> all[k]]

(***************************************************************************)
(* What the router prints: the rows the model draws command output from.   *)
(***************************************************************************)
MaxLines == 2

\* A MAC text whose hex digits are all c and whose separators are all sep.
MacText(c, sep) ==
  [i \in 1..17 |-> IF i % 3 = 0 THEN sep ELSE c]

StatusReachable == <<"R", "E", "A", "C", "H", "A", "B", "L", "E">>
StatusReachableLower == <<"r", "e", "a", "c", "h", "a", "b", "l", "e">>
StatusStale == <<"S", "T", "A", "L", "E">>
StatusFailed == <<"F", "A", "I", "L", "E", "D">>

LowerMacTexts == {MacText("a", ":"), MacText("a", "-"), MacText("1", ":")}

\* `wl assoclist` rows; the last one has a lower-case MAC.
WlRows ==
  {TextLine("wl", m, "", "", <<>>) :
     m \in {MacText("A", ":"), MacText("A", "-"), MacText("1", ":"),
            MacText("a", ":")}}

\* `arp -n` rows; the last one has an upper-case MAC.
ArpRows ==
  { TextLine("arp", MacText("a", ":"), "10.0.0.1", "", <<>>),
    TextLine("arp", MacText("a", ":"), "10.0.0.2", "", <<>>),
    TextLine("arp", MacText("a", "-"), "10.0.0.1", "", <<>>),
    TextLine("arp", MacText("1", ":"), "10.0.0.1", "", <<>>),
    TextLine("arp", MacText("A", ":"), "10.0.0.1", "", <<>>) }

\* `ip neigh` rows, with and without a lladdr field; one has an IPv6 address
\* and the last one has no address in front.
NeighRows ==
  { TextLine("neigh", MacText("a", ":"), "10.0.0.1", "", StatusReachable),
    TextLine("neigh", MacText("a", ":"), "10.0.0.2", "", StatusReachableLower),
    TextLine("neigh", MacText("a", "-"), "10.0.0.2", "", StatusReachable),
    TextLine("neigh", MacText("a", ":"), "10.0.0.2", "", StatusStale),
    TextLine("neigh", MacText("1", ":"), "10.0.0.2", "", StatusFailed),
    TextLine("neigh", <<>>, "10.0.0.1", "", StatusFailed),
    TextLine("neigh", <<>>, "10.0.0.1", "", StatusReachable),
    TextLine("neigh", MacText("1", ":"), "fe80::1", "", StatusReachable),
    TextLine("neigh", MacText("a", ":"), "", "", StatusReachable) }

\* dnsmasq.leases rows, and the `duid ...` row.
LeaseRows ==
  { TextLine("lease", MacText("a", ":"), "10.0.0.1", "pc", <<>>),
    TextLine("lease", MacText("a", ":"), "10.0.0.2", "*", <<>>),
    TextLine("lease", MacText("a", "-"), "10.0.0.2", "pc", <<>>),
    TextLine("lease", MacText("1", ":"), "10.0.0.2", "*", <<>>),
    TextLine("lease", MacText("1", ":"), "10.0.0.1", "pc", <<>>),
    TextLine("duid", <<>>, "", "", <<>>) }

\* What `await self.connection.async_run_command(cmd)` can give AsusWrt, which
\* never passes retry=True: see SshRunOk, SshReinitOk, SshInitFail, SshRunRaise
\* and TelCommandOk, TelCommandFail, TelOpenFail, TelLoginFail.
RunResultsOf(outs) ==
  IF use_telnet
    THEN {RetLines(StripEchoAndPrompt(TelnetRaw(out))) : out \in outs}
           \cup {RetRaise}
    ELSE {RetLines(SplitNewline(out)) : out \in outs}
           \cup {RetCoroutine, RetRaise}

RunResults(rows) == RunResultsOf(SeqsUpTo(rows, MaxLines))

VARIABLES
  mode,         \* AsusWrt.mode
  require_ip,   \* AsusWrt.require_ip
  dstage,       \* async_get_connected_devices: the command it is at
  awaiting,     \* that command was sent and its output is awaited
  devices,      \* its local `devices`
  before,       \* `devices` as it was before the last update
  lastcmd,      \* the command that ran last
  lastin,       \* what async_run_command gave for that command
  result,       \* ret_devices, once returned
  silent,       \* the commands of this call that gave no line that parses
  stale_only    \* MACs seen so far only in IP-neighbor rows that are not REACHABLE

devVars == <<mode, require_ip, dstage, awaiting, devices, before, lastcmd, lastin, result,
             silent, stale_only>>

InitDevFields ==
  /\ dstage = "idle"
  /\ awaiting = FALSE
  /\ devices = EmptyDict
  /\ before = EmptyDict
  /\ lastcmd = "none"
  /\ lastin = RetNone
  /\ result = EmptyDict
  /\ silent = {}
  /\ stale_only = {}

\* The spellings of the status word that str.upper() turns into REACHABLE,
\* among the statuses the model prints.
ReachableSpellings == {StatusReachable, StatusReachableLower}

\* The canonical text of a MAC text of the model: upper-case hex digits, and
\* the separators as printed.
UpperHexOf(c) == IF c = "a" THEN "A" ELSE c
KeyOfMacText(m) == [i \in 1..17 |-> IF i % 3 = 0 THEN m[i] ELSE UpperHexOf(m[i])]

\* The rows of an `ip neigh` output that the pattern accepts and that name
\* a MAC: the records of which `device['mac'] is not None`.
NeighRowsWithMac(lines) ==
  {lines[i] : i \in {j \in 1..Len(lines) :
                       /\ NeighSearch(lines[j]).matched
                       /\ NeighSearch(lines[j]).mac # NoMac}}

\* The keys whose only sighting, up to and including this `ip neigh` output,
\* is in rows that are not REACHABLE.
StaleOnly(table, r) ==
  IF r.kind # "lines" THEN {}
  ELSE {k \in {KeyOfMacText(l.mac) : l \in NeighRowsWithMac(r.lines)} :
          /\ k \notin DOMAIN table
          /\ \A l \in NeighRowsWithMac(r.lines) :
               KeyOfMacText(l.mac) = k => l.status \notin ReachableSpellings}

\* The rows of the model that no pattern accepts: the empty line, the duid
\* row, a wireless row with a lower-case MAC, an ARP row with an upper-case
\* MAC, an IP-neighbor row with no address.
UnparsableRows ==
  {EmptyLine, TextLine("duid", <<>>, "", "", <<>>),
   TextLine("wl", MacText("a", ":"), "", "", <<>>)}
  \cup {TextLine("arp", MacText("A", ":"), "10.0.0.1", "", <<>>),
        TextLine("neigh", MacText("a", ":"), "", "", StatusReachable)}

\* No line of the output parses (the output may have no line at all).
Silent(r) ==
  /\ r.kind = "lines"
  /\ \A i \in 1..Len(r.lines) : r.lines[i] \in UnparsableRows

\* `devices = {}` at the start of async_get_connected_devices.
DevCall ==
  /\ dstage \in {"idle", "done", "raised"}
  /\ dstage' = "wl"
  /\ awaiting' = TRUE
  /\ devices' = EmptyDict
  /\ before' = EmptyDict
  /\ lastcmd' = "none"
  /\ lastin' = RetNone
  /\ result' = EmptyDict
  /\ silent' = {}
  /\ stale_only' = {}
  /\ UNCHANGED <<mode, require_ip>>

\* `devices.update(await self.async_get_...)`, and when the command was the
\* last one, the filter loop and `return ret_devices`.
Awaits(cmd) == dstage = cmd /\ awaiting

DevStep(cmd, r, got, next) ==
  /\ Awaits(cmd)
  /\ awaiting' = FALSE
  /\ lastcmd' = cmd
  /\ lastin' = r
  /\ UNCHANGED <<mode, require_ip>>
  /\ IF got.raised
       THEN /\ dstage' = "raised"
            /\ UNCHANGED <<devices, before, result, silent, stale_only>>
       ELSE LET new == Update(devices, got.devices)
            IN /\ devices' = new
               /\ before' = devices
               /\ dstage' = next
               /\ silent' = IF Silent(r) THEN silent \cup {cmd} ELSE silent
               /\ stale_only' = IF cmd = "neigh" THEN StaleOnly(devices, r)
                                ELSE stale_only
               /\ result' = IF next = "done"
                              THEN FilterDevices(require_ip, new)
                              ELSE result

\* The next command is sent: the output of the previous one is no longer
\* referenced.
DevSend ==
  /\ dstage \in {"arp", "neigh", "leases"}
  /\ ~awaiting
  /\ awaiting' = TRUE
  /\ lastcmd' = "none"
  /\ lastin' = RetNone
  /\ before' = EmptyDict
  /\ UNCHANGED <<mode, require_ip, dstage, devices, result, silent, stale_only>>

StepWl(r) ==
  DevStep("wl", r, async_get_wl(r), "arp")

StepArp(r) ==
  DevStep("arp", r, async_get_arp(r), "neigh")

\* `if not self.mode == 'ap'`
SkipsLeasesNever == FALSE
SkipsLeases == mode = "ap"

StepNeigh(r) ==
  DevStep("neigh", r, async_get_neigh(r, devices),
             IF SkipsLeases THEN "done" ELSE "leases")

StepLeases(r) ==
  DevStep("leases", r, async_get_leases(r, devices), "done")

(***************************************************************************)
(* COUNTER CACHE AND RATE ESTIMATOR (asuswrt.py)                           *)
(***************************************************************************)
MaxTime == 2
MaxRateCalls == 3

\* CHANGE_TIME_CACHE_DEFAULT
CHANGE_TIME_CACHE_DEFAULT == 5

\* The value of the time_cache argument the rate model constructs AsusWrt
\* with: a window short enough for snapshots to expire within MaxTime.
CacheTimes == {2}

\* None for a datetime field and for a counter field.
NoTime == -1
NoCount == -1

\* A run of digits in a line: how many digits, and their value as a number.
Tok(digits, value) == [digits |-> digits, value |-> value]

CounterLine(toks) ==
  [fmt |-> "ifconfig", mac |-> <<>>, ip |-> "", host |-> "", status |-> <<>>,
   nums |-> toks]

\* `ifconfig eth0 |grep bytes` rows: "RX bytes:1001 ... TX bytes:2000 ...",
\* one whose first counter is printed as 0500, one whose second counter has
\* three digits, one whose counters both have three digits.
IfconfigRows ==
  { CounterLine(<<Tok(4, 1001), Tok(4, 2000)>>),
    CounterLine(<<Tok(4, 2000), Tok(4, 2500)>>),
    CounterLine(<<Tok(4, 500), Tok(4, 2600)>>),
    CounterLine(<<Tok(4, 1000), Tok(3, 512)>>),
    CounterLine(<<Tok(3, 512), Tok(3, 640)>>) }

\* What the command prints: ifconfig has one line with "bytes" in it, and grep
\* prints nothing when the interface is missing.
IfconfigOutputs == {<<>>} \cup {<<row>> : row \in IfconfigRows}

\* _IFCONFIG_REGEX.findall(line): the runs of four or more digits, in order.
IfconfigFindall(line) == SelectSeq(line.nums, LAMBDA t : t.digits >= 4)

\* `[int(value) for value in result]`
Ints(toks) == [i \in 1..Len(toks) |-> toks[i].value]

VARIABLES
  cache_time,             \* AsusWrt._cache_time
  clock,                  \* the last reading of datetime.utcnow()
  trans_cache_timer,      \* AsusWrt._trans_cache_timer (NoTime = None)
  transfer_rates_cache,   \* AsusWrt._transfer_rates_cache (<<>> while None)
  rx_latest,              \* AsusWrt._rx_latest (NoCount = None)
  tx_latest,              \* AsusWrt._tx_latest (NoCount = None)
  latest_transfer_check,  \* AsusWrt._latest_transfer_check (NoTime = None)
  rtask,                  \* per task: the call it is in, suspended at line 176
  nrcalls,                \* calls of the counter methods started so far
  rcall,                  \* the last call that ended and its outcome
  lrates,                 \* the last async_get_current_transfer_rates call,
                          \* as long as no such call has raised
  latest_read_at,         \* when the totals in _rx_latest/_tx_latest were read
  rates_err               \* some async_get_current_transfer_rates call raised

rateVars == <<cache_time, clock, trans_cache_timer, transfer_rates_cache,
              rx_latest, tx_latest, latest_transfer_check, rtask, nrcalls,
              rcall, lrates, latest_read_at, rates_err>>

\* The tasks that call the counter methods.
RateTasks == {1, 2}

\* The frame of a call: the method called, its argument, the reading of
\* utcnow() of line 197 (now), the one of line 171 (tnow), and whether the
\* call found a snapshot.
Frame(at, op, use_cache, now, tnow, had) ==
  [pc |-> at, op |-> op, use_cache |-> use_cache, now |-> now, tnow |-> tnow,
   had |-> had]

IdleFrame == Frame("idle", "none", FALSE, 0, 0, FALSE)

NoCall ==
  [op |-> "none", use_cache |-> FALSE, now |-> 0, had |-> FALSE,
   issued |-> 0, out |-> "notissued", raised |-> FALSE, got |-> FALSE,
   totals |-> <<>>, absent |-> FALSE, rates |-> <<>>]

NoPrevious == [returned |-> FALSE, now |-> 0, totals |-> <<>>]

InitRateFields ==
  /\ clock = 0
  /\ trans_cache_timer = NoTime
  /\ transfer_rates_cache = <<>>
  /\ rx_latest = NoCount
  /\ tx_latest = NoCount
  /\ latest_transfer_check = NoTime
  /\ rtask = [t \in RateTasks |-> IdleFrame]
  /\ nrcalls = 0
  /\ rcall = NoCall
  /\ lrates = NoPrevious
  /\ latest_read_at = NoTime
  /\ rates_err = FALSE

\* `use_cache and self._trans_cache_timer and self._cache_time >
\*  (now - self._trans_cache_timer).total_seconds()`
CacheFreshOffByOne(use_cache, now) ==
  /\ use_cache
  /\ trans_cache_timer # NoTime
  /\ cache_time >= now - trans_cache_timer
CacheFresh(use_cache, now) ==
  /\ use_cache
  /\ trans_cache_timer # NoTime
  /\ cache_time > now - trans_cache_timer

\* What `data[0]` of async_get_packets_total does: an exception of the
\* transport propagates, a coroutine object is not subscriptable, an empty list
\* has no element 0.
NoFirstLine(r) == r.kind # "lines" \/ r.lines = <<>>

\* `return self._transfer_rates_cache`: async_get_packets_total answered by
\* the cache. The record says whether the method raised, whether the command
\* was issued, what was returned, and the cache fields afterwards.
PacketsTotalCached ==
  [raised |-> FALSE, issued |-> 0, ret |-> transfer_rates_cache,
   cache |-> transfer_rates_cache, timer |-> trans_cache_timer]

\* Lines 177-183 of async_get_packets_total, r being what the run call gave
\* and tnow the reading of line 171.
PacketsTotalRead(tnow, r) ==
  IF NoFirstLine(r)
    THEN [raised |-> TRUE, issued |-> 1, ret |-> <<>>,
          cache |-> transfer_rates_cache, timer |-> trans_cache_timer]
  ELSE LET values == Ints(IfconfigFindall(r.lines[1]))
       IN [raised |-> FALSE, issued |-> 1, ret |-> values, cache |-> values,
           timer |-> tnow]

\* math.ceil(a / b) for a > 0 and b # 0: b is negative when a call that
\* read the clock earlier ends after one that read it later.
Ceil(a, b) == IF b > 0 THEN (a + b - 1) \div b ELSE 0 - (a \div (0 - b))

\* `math.ceil(rx / time_diff.total_seconds()) if rx > 0 else 0`
RateFloor(delta, seconds) == IF delta > 0 THEN delta \div seconds ELSE 0
Rate(delta, seconds) == IF delta > 0 THEN Ceil(delta, seconds) ELSE 0

\* The readings of utcnow() a call can get: the clock does not run backwards.
Readings(from) == from..MaxTime

\* What the interface-statistics command gave the call: nothing when it was
\* not issued, an exception, a coroutine object, no line, a first line with
\* fewer than two counters the pattern matches, or one with two or more.
OutputClass(issued, r) ==
  IF issued = 0 THEN "notissued"
  ELSE IF r.kind # "lines" THEN r.kind
  ELSE IF r.lines = <<>> THEN "nolines"
  ELSE IF Len(IfconfigFindall(r.lines[1])) < 2 THEN "short"
  ELSE "full"

\* The outcome of a call, as rcall records it.
Outcome(f, pt, r, raised, absent, rates) ==
  [op |-> f.op, use_cache |-> f.use_cache, now |-> f.now, had |-> f.had, out |-> OutputClass(pt.issued, r), issued |-> pt.issued,
   raised |-> raised, got |-> ~pt.raised, totals |-> pt.ret,
   absent |-> absent, rates |-> rates]

\* async_get_packets_total, async_get_rx (`return data[0]`) and async_get_tx
\* (`return data[1]`) from the point where async_get_packets_total has its
\* outcome pt: the cache fields are written, the index may be out of range.
TotalsEnds(f, pt, r) ==
  /\ transfer_rates_cache' = pt.cache
  /\ trans_cache_timer' = pt.timer
  /\ rcall' = Outcome(f, pt, r,
                      \/ pt.raised
                      \/ f.op = "rx" /\ Len(pt.ret) < 1
                      \/ f.op = "tx" /\ Len(pt.ret) < 2,
                      FALSE, <<>>)
  /\ UNCHANGED <<cache_time, rx_latest, tx_latest, latest_transfer_check,
                 lrates, latest_read_at, rates_err>>

\* The line of the statement of async_get_current_transfer_rates that
\* raises, 0 when none does; pt is the outcome of async_get_packets_total and
\* now the reading of line 197.
RatesFailsAt(pt, now) ==
  LET data == pt.ret
      first == rx_latest = NoCount \/ tx_latest = NoCount
  IN IF pt.raised THEN 198
     ELSE IF first THEN (IF Len(data) = 0 THEN 201
                         ELSE IF Len(data) = 1 THEN 202 ELSE 0)
     ELSE IF Len(data) = 0 THEN 208
     ELSE IF Len(data) = 1 THEN 209
     ELSE IF now - latest_transfer_check = 0
               /\ (data[1] - rx_latest > 0 \/ data[2] - tx_latest > 0) THEN 215
     ELSE 0

\* async_get_current_transfer_rates from line 199 on, and
\* async_current_transfer_human_readable, whose `rx, tx = ...` raises when
\* the rates are None; the text that convert_size makes of the two rates is
\* not modelled, the outcome records the rates themselves.
RatesEnds(f, pt, r) ==
  \E fails \in {RatesFailsAt(pt, f.now)} :
  LET data == pt.ret
      first == rx_latest = NoCount \/ tx_latest = NoCount
      time_diff == f.now - latest_transfer_check
      rx == data[1] - rx_latest
      tx == data[2] - tx_latest
  IN /\ transfer_rates_cache' = pt.cache
     /\ trans_cache_timer' = pt.timer
     /\ latest_transfer_check' = IF fails = 198 THEN latest_transfer_check
                                 ELSE f.now
     /\ rx_latest' = IF fails \in {0, 202, 215} THEN data[1] ELSE rx_latest
     /\ latest_read_at' = IF fails \in {0, 202, 215} THEN pt.timer
                          ELSE latest_read_at
     /\ tx_latest' = IF fails \in {0, 215} THEN data[2] ELSE tx_latest
     /\ rcall' = Outcome(f, pt, r,
                         fails # 0 \/ (f.op = "human" /\ first),
                         fails = 0 /\ first,
                         IF fails = 0 /\ ~first
                           THEN <<Rate(rx, time_diff), Rate(tx, time_diff)>>
                           ELSE <<>>)
     /\ lrates' = IF rates_err \/ fails # 0 THEN NoPrevious
                   ELSE [returned |-> TRUE, now |-> f.now, totals |-> data]
     /\ rates_err' = (rates_err \/ fails # 0)
     /\ UNCHANGED cache_time

\* The call of task t ends: its frame is dropped and the rest of the method
\* it called runs.
CallEnds(t, f, pt, r) ==
  /\ rtask' = [rtask EXCEPT ![t] = IdleFrame]
  /\ IF f.op \in {"rates", "human"} THEN RatesEnds(f, pt, r)
                                      ELSE TotalsEnds(f, pt, r)

\* A method is called with utcnow() reading now at line 197 and tnow at line
\* 171 (one reading, now = tnow, for the methods that have no line 197). If
\* the cache answers, the call runs to its end without a suspension;
\* otherwise the command is issued and the call is suspended at line 176.
Calls(t, op, use_cache, now, tnow) ==
  /\ rtask[t].pc = "idle"
  /\ nrcalls < MaxRateCalls
  /\ nrcalls' = nrcalls + 1
  /\ clock' = tnow
  /\ IF CacheFresh(use_cache, tnow)
       THEN CallEnds(t, Frame("idle", op, use_cache, now, tnow,
                              trans_cache_timer # NoTime),
                     PacketsTotalCached, RetNone)
       ELSE /\ rtask' = [rtask EXCEPT ![t] =
                           Frame("run", op, use_cache, now, tnow,
                                 trans_cache_timer # NoTime)]
            /\ UNCHANGED <<cache_time, trans_cache_timer, transfer_rates_cache,
                           rx_latest, tx_latest, latest_transfer_check, rcall,
                           lrates, latest_read_at, rates_err>>

\* A direct call of async_get_packets_total.
GetPacketsTotal(t, use_cache, now) == Calls(t, "totals", use_cache, now, now)

\* async_get_rx(use_cache)
GetRx(t, use_cache, now) == Calls(t, "rx", use_cache, now, now)

\* async_get_tx(use_cache)
GetTx(t, use_cache, now) == Calls(t, "tx", use_cache, now, now)

\* async_get_current_transfer_rates(use_cache): utcnow() is read at line 197
\* and again at line 171, with no suspension between the two.
GetCurrentTransferRates(t, use_cache, now, tnow) ==
  Calls(t, "rates", use_cache, now, tnow)

\* async_current_transfer_human_readable(use_cache)
CurrentTransferHumanReadable(t, use_cache, now, tnow) ==
  Calls(t, "human", use_cache, now, tnow)

\* `data = await self.connection.async_run_command(_IFCONFIG_CMD)` gives r to
\* the suspended call of task t, which runs to its end.
IfconfigReturns(t, r) ==
  /\ rtask[t].pc = "run"
  /\ UNCHANGED <<clock, nrcalls>>
  /\ CallEnds(t, rtask[t], PacketsTotalRead(rtask[t].tnow, r), r)

\* No task is inside a call of the counter methods.
RateQuiet == \A t \in RateTasks : rtask[t].pc = "idle"

\* When the calls follow one another it does not matter which task makes
\* them: they are all made by the first.
SequentialCallers == {t \in RateTasks : \A u \in RateTasks : t <= u}

(***************************************************************************)
(* SPECIFICATIONS                                                          *)
(***************************************************************************)
vars == <<connVars, devVars, rateVars>>

\* SshConnection(...) or TelnetConnection(...) was constructed; run calls
\* follow one another, as AsusWrt awaits each before it makes the next.
InitConn ==
  /\ use_telnet \in BOOLEAN
  /\ InitConnFields
  /\ mode = "router"
  /\ require_ip = FALSE
  /\ InitDevFields
  /\ cache_time = CHANGE_TIME_CACHE_DEFAULT
  /\ InitRateFields

NextConn ==
  /\ UNCHANGED <<devVars, rateVars>>
  /\ \E t \in Tasks :
       \/ \E r \in BOOLEAN : Quiet /\ SshCall(t, r)
       \/ SshInitOk(t)
       \/ SshInitFail(t)
       \/ \E out \in SeqsUpTo(WlRows, MaxOut) : SshRunOk(t, out)
       \/ SshRunChannelOpenError(t)
       \/ SshRunRaise(t)
       \/ SshReinitOk(t)
       \/ Quiet /\ TelCall(t)
       \/ TelOpenOk(t)
       \/ TelOpenFail(t)
       \/ TelLoginPrompt(t)
       \/ TelPasswordPrompt(t)
       \/ TelLoginOk(t)
       \/ TelLoginFail(t)
       \/ \E out \in SeqsUpTo(WlRows, MaxOut) : TelCommandOk(t, out)
       \/ TelCommandFail(t)

SpecConn == InitConn /\ [][NextConn]_vars

\* SshConnection(...) or TelnetConnection(...) was constructed and tasks call
\* async_run_command without waiting for one another: a task runs up to its
\* next await, where any other task may run.
InitConc ==
  /\ use_telnet \in BOOLEAN
  /\ InitConnFields
  /\ mode = "router"
  /\ require_ip = FALSE
  /\ InitDevFields
  /\ cache_time = CHANGE_TIME_CACHE_DEFAULT
  /\ InitRateFields

NextConc ==
  /\ UNCHANGED <<devVars, rateVars>>
  /\ \E t \in Tasks :
       \/ \E r \in BOOLEAN : SshCall(t, r)
       \/ SshInitOk(t)
       \/ SshInitFail(t)
       \/ \E out \in SeqsUpTo(WlRows, MaxOut) : SshRunOk(t, out)
       \/ SshRunChannelOpenError(t)
       \/ SshRunRaise(t)
       \/ SshReinitOk(t)
       \/ TelCall(t)
       \/ TelOpenOk(t)
       \/ TelOpenFail(t)
       \/ TelLoginPrompt(t)
       \/ TelPasswordPrompt(t)
       \/ TelLoginOk(t)
       \/ TelLoginFail(t)
       \/ \E out \in SeqsUpTo(WlRows, MaxOut) : TelCommandOk(t, out)
       \/ TelCommandFail(t)

SpecConc == InitConc /\ [][NextConc]_vars

\* AsusWrt(host, port, use_telnet, mode, require_ip) was constructed.
InitDev ==
  /\ use_telnet \in BOOLEAN
  /\ InitConnFields
  /\ mode \in {"router", "ap"}
  /\ require_ip \in BOOLEAN
  /\ InitDevFields
  /\ cache_time = CHANGE_TIME_CACHE_DEFAULT
  /\ InitRateFields

NextDev ==
  /\ UNCHANGED <<connVars, rateVars>>
  /\ \/ DevCall
     \/ DevSend
     \/ Awaits("wl") /\ \E r \in RunResults(WlRows) : StepWl(r)
     \/ Awaits("arp") /\ \E r \in RunResults(ArpRows) : StepArp(r)
     \/ Awaits("neigh") /\ \E r \in RunResults(NeighRows) : StepNeigh(r)
     \/ Awaits("leases") /\ \E r \in RunResults(LeaseRows) : StepLeases(r)

SpecDev == InitDev /\ [][NextDev]_vars

\* AsusWrt(host, port, use_telnet, time_cache) was constructed. RateSteps are
\* the steps of the counter methods; in SpecRate the calls follow one
\* another, in SpecRateConc the calls of two tasks overlap.
InitRate ==
  /\ use_telnet \in BOOLEAN
  /\ InitConnFields
  /\ mode = "router"
  /\ require_ip = FALSE
  /\ InitDevFields
  /\ cache_time \in CacheTimes
  /\ InitRateFields

NextRate ==
  /\ UNCHANGED <<connVars, devVars>>
  /\ \E t \in SequentialCallers :
       \/ \E use_cache \in BOOLEAN, now \in Readings(clock) :
            /\ RateQuiet
            /\ \/ GetPacketsTotal(t, use_cache, now)
               \/ GetRx(t, use_cache, now)
               \/ GetTx(t, use_cache, now)
               \/ \E tnow \in Readings(now) :
                    \/ GetCurrentTransferRates(t, use_cache, now, tnow)
                    \/ CurrentTransferHumanReadable(t, use_cache, now, tnow)
       \/ \E r \in RunResultsOf(IfconfigOutputs) : IfconfigReturns(t, r)

SpecRate == InitRate /\ [][NextRate]_vars

NextRateConc ==
  /\ UNCHANGED <<connVars, devVars>>
  /\ \E t \in RateTasks :
       \/ \E use_cache \in BOOLEAN, now \in Readings(clock) :
            \/ GetPacketsTotal(t, use_cache, now)
            \/ GetRx(t, use_cache, now)
            \/ GetTx(t, use_cache, now)
            \/ \E tnow \in Readings(now) :
                 \/ GetCurrentTransferRates(t, use_cache, now, tnow)
                 \/ CurrentTransferHumanReadable(t, use_cache, now, tnow)
       \/ \E r \in RunResultsOf(IfconfigOutputs) : IfconfigReturns(t, r)

SpecRateConc == InitRate /\ [][NextRateConc]_vars

(***************************************************************************)
(* CLAIMS ABOUT THE TRANSPORT (checked under SpecConn)                     *)
(***************************************************************************)
\* Task t has finished a run(command) call (retry not passed) in which an
\* execution failed with a channel-open failure, and the call did not raise.
RetriedCallDone(t) ==
  /\ pc[t] = "idle"
  /\ ~retry[t]
  /\ chanfail[t] >= 1
  /\ ret[t].kind # "raise"

\* C1: a run(command) call whose execution fails with a channel-open failure
\* re-initializes the session exactly once and executes the command again
\* exactly once (two executions, one re-initialization); when the second
\* execution fails too, the caller gets the empty sequence.
C1_RetryExecutesCommandAgain ==
  \A t \in Tasks :
    RetriedCallDone(t) =>
      /\ nexec[t] = 2
      /\ ninit[t] \in {1, 2}
      /\ chanfail[t] = 2 => ret[t] = RetLines(<<>>)

\* C2: every run(command) call that completes without raising returns a
\* sequence of output lines; after a channel-open failure and a successful
\* re-initialization it is the output of the second execution.
C2_RunReturnsOutputLines ==
  \A t \in Tasks :
    (pc[t] = "idle" /\ ret[t].kind \notin {"none", "raise"}) =>
      ret[t].kind = "lines"

\* C3: for both transports no session exists at construction, the first run
\* call establishes it, and as long as nothing has failed the session is
\* established exactly once however many run calls were made.
C3_SessionEstablishedOnce ==
  /\ ncalls = 0 =>
       /\ nestab = 0
       /\ client = NoHandle
       /\ rw = NoHandle
       /\ ~connected
  /\ ~anyfail =>
       /\ nestab <= 1
       /\ ndone >= 1 => nestab = 1
       /\ ndone >= 1 => IF use_telnet THEN connected ELSE client # NoHandle

\* Three run calls have returned over one session, nothing having failed.
C3_Witness ==
  /\ ~anyfail
  /\ ndone >= 3
  /\ nestab = 1

\* C15: the Telnet transport never reconnects on its own. A run call that
\* has reached its command ends with that one execution, returning the lines
\* or raising the failure to its caller, without a login attempt; once a
\* login has succeeded the transport stays connected on the same streams and
\* no call is ever in the login sequence again.
C15_TelnetNeverReconnects ==
  /\ [](use_telnet =>
          /\ nestab <= 1
          /\ connected =>
               \A t \in Tasks :
                 /\ pc[t] \notin {"open", "login", "password", "prompt"}
                 /\ ninit[t] <= 1)
  /\ [][use_telnet =>
          /\ connected => connected' /\ rw' = rw /\ nestab' = nestab
          /\ \A t \in Tasks :
               (pc[t] = "command" /\ pc'[t] # "command") =>
                 /\ pc'[t] = "idle"
                 /\ ret'[t].kind \in {"lines", "raise"}
                 /\ nexec'[t] = 1
                 /\ ninit'[t] = ninit[t]]_vars

\* On a logged-in Telnet transport the command of a run call failed and the
\* call raised, after another call had returned lines; the session is still
\* the one that was established.
C15_Witness ==
  /\ use_telnet
  /\ connected
  /\ nestab = 1
  /\ ndone >= 1
  /\ \E t \in Tasks :
       /\ pc[t] = "idle"
       /\ ret[t].kind = "raise"
       /\ nexec[t] = 1
       /\ ninit[t] = 0

\* C18: while no session establishment has succeeded the transport is
\* unconnected (no SSH client stored, Telnet connected flag false); a failed
\* establishment raises to the caller of the run call, which executes no
\* command; and a run call that starts on an unconnected transport goes to
\* establish the session, so a command is only executed over an established
\* session.
C18_FailedEstablishmentStaysUnconnected ==
  /\ []( /\ nestab = 0 => client = NoHandle /\ ~connected
         /\ \A t \in Tasks :
              /\ pc[t] = "run" => client # NoHandle
              /\ pc[t] = "command" => connected )
  /\ [][\A t \in Tasks :
          /\ (pc[t] \in {"init", "open", "login", "password", "prompt"}
                /\ pc'[t] = "idle") =>
               /\ ret'[t] = RetRaise
               /\ nexec'[t] = 0
               /\ client' = NoHandle
               /\ ~connected'
          /\ (pc[t] = "idle" /\ pc'[t] # "idle" /\ nestab = 0) =>
               pc'[t] \in {"init", "open"}]_vars

\* A run call failed in session establishment on first use and raised without
\* executing its command; a later call established the session and returned.
C18_Witness ==
  /\ nestab = 1
  /\ ndone >= 1
  /\ \E t \in Tasks :
       /\ pc[t] = "idle"
       /\ ret[t].kind = "raise"
       /\ nexec[t] = 0
       /\ ninit[t] <= 1
  /\ \E t \in Tasks : pc[t] = "idle" /\ ret[t].kind = "lines"

(***************************************************************************)
(* CLAIMS ABOUT CONCURRENT RUN CALLS (checked under SpecConc)              *)
(***************************************************************************)
\* C20: when two tasks call async_run_command concurrently on a fresh SSH
\* transport and nothing fails, the session is established only once: the
\* transport never holds a second session or replaces the one it has.
C20_ConcurrentCallsShareOneSession ==
  (~use_telnet /\ ~anyfail) => nestab <= 1 /\ nhandles <= 1

(***************************************************************************)
(* CLAIMS ABOUT THE DEVICE RECONCILER (checked under SpecDev)              *)
(***************************************************************************)
\* The command cmd has just run and its output was merged.
JustRan(cmd) ==
  /\ lastcmd = cmd
  /\ ~awaiting
  /\ dstage # "raised"
  /\ lastin.kind = "lines"

\* The lease rows of the last output, as printed.
LeaseRowsOf(r) ==
  {r.lines[i] : i \in {j \in 1..Len(r.lines) : r.lines[j].fmt = "lease"}}

\* C4: a DHCP lease whose MAC is not a key of the table built from the
\* wireless list, ARP and IP-neighbor steps leaves no entry for that MAC in
\* the final table.
C4_LeaseAloneAddsNoDevice ==
  (dstage = "done" /\ JustRan("leases")) =>
    \A l \in LeaseRowsOf(lastin) :
      KeyOfMacText(l.mac) \notin DOMAIN before =>
        /\ KeyOfMacText(l.mac) \notin DOMAIN devices
        /\ KeyOfMacText(l.mac) \notin DOMAIN result

\* A poll ended in which one lease named an unknown MAC and another lease was
\* applied to a known one.
C4_Witness ==
  /\ dstage = "done"
  /\ JustRan("leases")
  /\ \E l \in LeaseRowsOf(lastin) : KeyOfMacText(l.mac) \notin DOMAIN before
  /\ \E l \in LeaseRowsOf(lastin) :
       /\ KeyOfMacText(l.mac) \in DOMAIN result
       /\ result[KeyOfMacText(l.mac)].name = "pc"

\* The keys named only by rows that are not REACHABLE in the last output.
NotReachableKeys(r) ==
  {k \in {KeyOfMacText(l.mac) : l \in NeighRowsWithMac(r.lines)} :
     \A l \in NeighRowsWithMac(r.lines) :
       KeyOfMacText(l.mac) = k => l.status \notin ReachableSpellings}

\* C5: an IP-neighbor row whose status is not REACHABLE (in any letter case)
\* is discarded: it changes no entry of the table, and a MAC seen only in
\* such rows is absent from the final table.
C5_NotReachableDiscarded ==
  /\ JustRan("neigh") =>
       \A k \in NotReachableKeys(lastin) :
         /\ k \in DOMAIN devices <=> k \in DOMAIN before
         /\ k \in DOMAIN before => devices[k] = before[k]
  /\ dstage = "done" => stale_only \cap DOMAIN result = {}

\* The IP-neighbor output named a known MAC with an IP in a STALE row and an
\* unknown MAC in a STALE or FAILED row.
C5_Witness ==
  /\ JustRan("neigh")
  /\ stale_only # {}
  /\ \E k \in NotReachableKeys(lastin) :
       k \in DOMAIN before /\ before[k].ip # None

\* C6: with require_ip every returned device has an IP; without it the whole
\* merged table is returned, devices without an IP included.
C6_RequireIpFilter ==
  dstage = "done" =>
    /\ require_ip => \A k \in DOMAIN result : result[k].ip # None
    /\ ~require_ip => result = devices
    /\ \A k \in DOMAIN result : k \in DOMAIN devices /\ result[k] = devices[k]

\* A poll with require_ip ended: one device without an IP was dropped and one
\* with an IP was returned.
C6_Witness ==
  /\ dstage = "done"
  /\ require_ip
  /\ \E k \in DOMAIN devices : devices[k].ip = None
  /\ result # EmptyDict

\* Upper-case hex pairs separated by colons.
CanonicalMac(k) ==
  /\ Len(k) = 17
  /\ \A i \in 1..17 :
       IF i % 3 = 0 THEN k[i] = ":" ELSE k[i] \in Digits \cup UpperHexLetters

\* C7: every key of the returned table, and the mac of its Device, is a
\* canonical MAC string: upper-case hex pairs separated by colons, whatever
\* case and separator the router printed.
C7_KeysAreCanonicalMacs ==
  dstage = "done" =>
    \A k \in DOMAIN result : CanonicalMac(k) /\ result[k].mac = k

\* The commands a poll runs.
CommandsRun ==
  IF mode = "ap" THEN {"wl", "arp", "neigh"} ELSE {"wl", "arp", "neigh", "leases"}

\* What the run call gives AsusWrt when the execution of the command failed
\* with a channel-open failure and the session was established again.
SshFailure(r) == ~use_telnet /\ r.kind = "coroutine"

\* C10: a command whose run call gives no line, or only lines that do not
\* parse, or that met a channel-open failure of the SSH transport, contributes
\* nothing: the poll does not raise on it and the table is left as it was, so
\* the result is the reconciliation of the other commands; when every command
\* is such the result is the empty table.
C10_SilentSourcesContributeNothing ==
  /\ (lastcmd # "none" /\ ~awaiting /\ (Silent(lastin) \/ SshFailure(lastin))) =>
       /\ dstage # "raised"
       /\ devices = before
  /\ (dstage = "done" /\ silent = CommandsRun) => result = EmptyDict

\* C12: in access-point mode the DHCP-lease command is never issued, so no
\* content of the lease file is ever read: the poll ends with the IP-neighbor
\* step and returns the table of the first three commands, filtered.
C12_ApModeSkipsLeases ==
  mode = "ap" =>
    /\ dstage # "leases"
    /\ lastcmd # "leases"
    /\ "leases" \notin silent
    /\ dstage = "done" =>
         /\ lastcmd = "neigh"
         /\ \A k \in DOMAIN result : result[k] = devices[k]
         /\ \A k \in DOMAIN devices :
              (~require_ip \/ devices[k].ip # None) => k \in DOMAIN result

\* A poll in access-point mode returned devices.
C12_Witness ==
  /\ mode = "ap"
  /\ dstage = "done"
  /\ lastcmd = "neigh"
  /\ result # EmptyDict

\* The rows of an `ip neigh` output that name a MAC, as printed: with or
\* without an address in front.
NeighRowsNamingMac(lines) ==
  {lines[i] : i \in {j \in 1..Len(lines) :
                       lines[j].fmt = "neigh" /\ lines[j].mac \in LowerMacTexts}}

\* The keys that the last `ip neigh` output names in a REACHABLE row with a
\* MAC and no address, and in no REACHABLE row with an address.
IpLessReachableKeys(r) ==
  {k \in {KeyOfMacText(l.mac) : l \in NeighRowsNamingMac(r.lines)} :
     /\ \E l \in NeighRowsNamingMac(r.lines) :
          /\ KeyOfMacText(l.mac) = k
          /\ l.ip = ""
          /\ l.status \in ReachableSpellings
     /\ \A l \in NeighRowsNamingMac(r.lines) :
          KeyOfMacText(l.mac) = k =>
            l.ip = "" \/ l.status \notin ReachableSpellings}

\* C13: a REACHABLE IP-neighbor row that has a MAC and no IP leaves the IP of
\* the entry of that MAC as the table held it before the neighbor step: the
\* IP is not cleared.
C13_IpLessNeighborKeepsIp ==
  JustRan("neigh") =>
    \A k \in IpLessReachableKeys(lastin) :
      /\ k \in DOMAIN devices <=> k \in DOMAIN before
      /\ k \in DOMAIN before => devices[k].ip = before[k].ip

\* The IP-neighbor output had such a row for a MAC whose entry had an IP.
C13_Witness ==
  /\ JustRan("neigh")
  /\ \E k \in IpLessReachableKeys(lastin) :
       k \in DOMAIN before /\ before[k].ip # None

\* The indexes of the lease rows of the last output whose MAC was a key of
\* the table before the lease step, and which no later such row of the same
\* MAC follows: the leases that were applied last.
AppliedLeases(r) ==
  {i \in 1..Len(r.lines) :
     /\ r.lines[i].fmt = "lease"
     /\ KeyOfMacText(r.lines[i].mac) \in DOMAIN before
     /\ \A j \in (i + 1)..Len(r.lines) :
          r.lines[j].fmt = "lease" => r.lines[j].mac # r.lines[i].mac}

\* C14: a lease with hostname "*" that was applied (the last one applied to
\* its MAC) gives a Device with the empty string as hostname, and no Device
\* of a returned table has the hostname "*".
C14_StarHostnameIsEmpty ==
  /\ dstage = "done" => \A k \in DOMAIN result : result[k].name # "*"
  /\ (dstage = "done" /\ JustRan("leases")) =>
       \A i \in AppliedLeases(lastin) :
         lastin.lines[i].host = "*" =>
           /\ KeyOfMacText(lastin.lines[i].mac) \in DOMAIN result
           /\ result[KeyOfMacText(lastin.lines[i].mac)].name = ""

\* A poll ended in which a lease with hostname "*" was applied.
C14_Witness ==
  /\ dstage = "done"
  /\ JustRan("leases")
  /\ \E i \in AppliedLeases(lastin) :
       /\ lastin.lines[i].host = "*"
       /\ result[KeyOfMacText(lastin.lines[i].mac)].name = ""

\* The MAC texts of the model with upper-case hex digits, which only the
\* wireless pattern accepts.
UpperMacTexts == {MacText("A", ":"), MacText("A", "-"), MacText("1", ":")}

\* The row l of the output of cmd yields a record, table being the table
\* before the step: a wireless row; an ARP row; a REACHABLE IP-neighbor row
\* with a MAC; a lease of a MAC the table knows.
Yields(cmd, l, table) ==
  CASE cmd = "wl" -> l.fmt = "wl" /\ l.mac \in UpperMacTexts
    [] cmd = "arp" -> l.fmt = "arp" /\ l.mac \in LowerMacTexts /\ l.ip # ""
    [] cmd = "neigh" -> /\ l.fmt = "neigh"
                        /\ l.mac \in LowerMacTexts
                        /\ l.ip # ""
                        /\ l.status \in ReachableSpellings
    [] cmd = "leases" -> /\ l.fmt = "lease"
                         /\ l.mac \in LowerMacTexts
                         /\ KeyOfMacText(l.mac) \in DOMAIN table

\* The record such a row yields.
RecordOf(cmd, l) ==
  Device(KeyOfMacText(l.mac),
         IF cmd = "wl" THEN None ELSE l.ip,
         IF cmd # "leases" THEN None ELSE IF l.host = "*" THEN "" ELSE l.host)

\* The indexes of the rows of the output r of cmd that yield a record for k.
YieldsFor(cmd, r, table, k) ==
  {i \in 1..Len(r.lines) :
     Yields(cmd, r.lines[i], table) /\ KeyOfMacText(r.lines[i].mac) = k}

\* The keys the output r of cmd yields a record for.
YieldedKeys(cmd, r, table) ==
  {KeyOfMacText(r.lines[i].mac) :
     i \in {j \in 1..Len(r.lines) : Yields(cmd, r.lines[j], table)}}

\* The last record the output r of cmd yields for k.
LastRecord(cmd, r, table, k) ==
  LET is == YieldsFor(cmd, r, table, k)
  IN RecordOf(cmd, r.lines[CHOOSE i \in is : \A j \in is : j <= i])

\* After the step of cmd, every MAC the step yields a record for has exactly
\* the last such record, and every other entry is as it was.
LastSourceWins(cmd) ==
  JustRan(cmd) =>
    /\ DOMAIN devices = DOMAIN before \cup YieldedKeys(cmd, lastin, before)
    /\ \A k \in DOMAIN devices :
         devices[k] = IF k \in YieldedKeys(cmd, lastin, before)
                        THEN LastRecord(cmd, lastin, before, k)
                        ELSE before[k]

\* C16: the sources are applied in the order wireless list, ARP, IP neighbor,
\* DHCP leases (router mode only), starting from the empty table, and after
\* each step the Device of a MAC is the record of the last source so far that
\* yielded one for it; an ARP record replaces the whole entry, setting the IP
\* and leaving no hostname; what is returned are entries of the final table.
C16_LastSourceInOrderWins ==
  /\ (dstage = "wl" /\ awaiting) => devices = EmptyDict
  /\ JustRan("wl") => dstage = "arp" /\ before = EmptyDict
  /\ JustRan("arp") => dstage = "neigh"
  /\ JustRan("neigh") => dstage = IF mode = "ap" THEN "done" ELSE "leases"
  /\ JustRan("leases") => dstage = "done" /\ mode # "ap"
  /\ dstage = "done" =>
       /\ lastcmd = IF mode = "ap" THEN "neigh" ELSE "leases"
       /\ \A k \in DOMAIN result : result[k] = devices[k]
  /\ \A cmd \in {"wl", "arp", "neigh", "leases"} : LastSourceWins(cmd)
  /\ JustRan("arp") =>
       \A k \in YieldedKeys("arp", lastin, before) :
         devices[k].ip \in Ipv4Texts /\ devices[k].name = None

\* The ARP step has replaced an entry that the wireless list had made.
C16_Witness ==
  /\ JustRan("arp")
  /\ \E k \in YieldedKeys("arp", lastin, before) :
       /\ k \in DOMAIN before
       /\ before[k].ip = None
       /\ devices[k].ip # None

\* C17 as stated: a lease applied to a MAC of the table changes only the
\* hostname; the IP of the entry stays the one of the ARP / IP-neighbor
\* steps, or absent.
C17_LeaseChangesOnlyHostname ==
  (dstage = "done" /\ JustRan("leases")) =>
    \A k \in DOMAIN before :
      /\ devices[k].ip = before[k].ip
      /\ k \in DOMAIN result => result[k].ip = before[k].ip

\* C17 amended: a lease applied to a MAC of the table replaces the entry by
\* Device(mac, the lease's IP, the lease's hostname): the IP of such a device
\* in the final table is the IP of the lease that was applied last to it, and
\* the entries no lease was applied to keep their IP.
C17_LeaseSetsIpAndHostname ==
  (dstage = "done" /\ JustRan("leases")) =>
    /\ \A i \in AppliedLeases(lastin) :
         LET k == KeyOfMacText(lastin.lines[i].mac)
         IN /\ devices[k].ip = lastin.lines[i].ip
            /\ k \in DOMAIN result /\ result[k].ip = lastin.lines[i].ip
    /\ \A k \in DOMAIN before :
         (\A i \in AppliedLeases(lastin) :
            KeyOfMacText(lastin.lines[i].mac) # k) =>
           devices[k].ip = before[k].ip

\* A poll ended in which a lease gave a device an IP other than the one the
\* ARP / IP-neighbor steps had given it.
C17_Witness ==
  /\ dstage = "done"
  /\ JustRan("leases")
  /\ \E i \in AppliedLeases(lastin) :
       LET k == KeyOfMacText(lastin.lines[i].mac)
       IN /\ before[k].ip # None
          /\ before[k].ip # lastin.lines[i].ip
          /\ result[k].ip = lastin.lines[i].ip

(***************************************************************************)
(* CLAIMS ABOUT THE TRANSFER COUNTERS (specification SpecRate)             *)
(***************************************************************************)

\* The step ends a call of a counter method: no task is suspended by it.
EndsACall ==
  \A t \in RateTasks : ~(rtask[t].pc = "idle" /\ rtask'[t].pc = "run")

\* The snapshot the call found is inside the window: it exists and strictly
\* less than the window has elapsed since its timestamp.
InsideWindow(now) ==
  /\ trans_cache_timer # NoTime
  /\ now - trans_cache_timer < cache_time

\* C8: with the calls following one another, a call of
\* async_get_packets_total(use_cache=True), direct or made by async_get_rx
\* or async_get_tx, that finds a snapshot less than the window old at its reading of
\* the clock issues no command, returns the cached values and leaves the
\* snapshot alone; a call that finds no snapshot, or one at least the window
\* old, issues the command once, and when the command's output is read the
\* cached values are what the call returns and the timestamp is the call's.
C8_CacheWindow ==
  [][ (EndsACall /\ rcall'.op \in {"totals", "rx", "tx"} /\ rcall'.use_cache) =>
        IF InsideWindow(rcall'.now)
          THEN /\ rcall'.issued = 0
               /\ rcall'.got
               /\ rcall'.totals = transfer_rates_cache
               /\ UNCHANGED <<transfer_rates_cache, trans_cache_timer>>
          ELSE /\ rcall'.issued = 1
               /\ rcall'.got => /\ transfer_rates_cache' = rcall'.totals
                                /\ trans_cache_timer' = rcall'.now ]_vars

\* A direct use_cache call found a snapshot, issued the command all the same
\* (the window had elapsed) and refreshed values and timestamp.
C8_Witness ==
  /\ rcall.op = "totals"
  /\ rcall.use_cache
  /\ rcall.had
  /\ rcall.issued = 1
  /\ rcall.got
  /\ trans_cache_timer = rcall.now
  /\ transfer_rates_cache = rcall.totals
  /\ Len(rcall.totals) = 2

\* ceil(a / b) for a > 0, b > 0, by its defining property.
CeilOf(a, b) ==
  CHOOSE q \in (a \div b)..(a \div b + 1) : q * b >= a /\ (q - 1) * b < a

\* The rate of one direction: the delta over the elapsed seconds rounded up,
\* 0 when the delta is not positive.
ExpectedRate(cur, prev, seconds) ==
  IF cur - prev > 0 THEN CeilOf(cur - prev, seconds) ELSE 0

\* The call that is being made reads two totals, no earlier call of
\* async_get_current_transfer_rates has raised, and time has passed since the
\* call before it, if there was one.
ReadsTwoTotals ==
  /\ EndsACall
  /\ rcall'.op = "rates"
  /\ vars' # vars
  /\ ~rates_err
  /\ rcall'.got
  /\ Len(rcall'.totals) >= 2
  /\ lrates.returned => rcall'.now > lrates.now

\* C9: the first call of async_get_current_transfer_rates returns None and
\* stores the totals it read; every later call returns, per direction, the
\* delta to the totals of the call before it over the seconds since that
\* call, rounded up, and 0 for a negative delta: it does not raise and no
\* rate is negative.
C9_RatesFromSuccessiveTotals ==
  [][ ReadsTwoTotals =>
        /\ ~rcall'.raised
        /\ IF ~lrates.returned
             THEN /\ rcall'.absent
                  /\ rx_latest' = rcall'.totals[1]
                  /\ tx_latest' = rcall'.totals[2]
             ELSE /\ ~rcall'.absent
                  /\ rcall'.rates =
                       << ExpectedRate(rcall'.totals[1], lrates.totals[1],
                                       rcall'.now - lrates.now),
                          ExpectedRate(rcall'.totals[2], lrates.totals[2],
                                       rcall'.now - lrates.now) >>
                  /\ rcall'.rates[1] >= 0
                  /\ rcall'.rates[2] >= 0 ]_vars

\* The last step of the example: after (2000, 2500), totals (500, 2600) one
\* second later give the rates (0, 100).
C9_Witness ==
  /\ rcall.op = "rates"
  /\ ~rates_err
  /\ rcall.totals = <<500, 2600>>
  /\ rcall.rates = <<0, 100>>

\* C11: when the interface-statistics command gives no output line, or a
\* first line with fewer than two counters, async_get_packets_total does not
\* raise: it returns a result of fewer than two values.
C11_ShortOutputDoesNotRaise ==
  (rcall.op = "totals" /\ rcall.out \in {"nolines", "short"}) =>
    /\ ~rcall.raised
    /\ Len(rcall.totals) < 2

\* C19: when async_get_current_transfer_rates(use_cache=True) returns rates,
\* the interval between the two readings of the router whose totals are
\* differenced is the interval the delta is divided by (the time between this
\* call and the call before it), also when a call was answered from the cache.
C19_DeltaAndDivisorSameInterval ==
  [][ (EndsACall /\ rcall'.op = "rates" /\ rcall'.use_cache
         /\ rcall'.rates # <<>>) =>
        trans_cache_timer' - latest_read_at
          = rcall'.now - latest_transfer_check ]_vars

====
